---- MODULE Spec2Model ----
(***************************************************************************)
(* The Rucio auditor daemon (lib/rucio/daemons/auditor/__init__.py): the   *)
(* worker loop check(), the check pipeline consistency(), the output       *)
(* processor process_output() with guess_replica_info() and                *)
(* bz2_compress_file().                                                    *)
(*                                                                         *)
(* A Python str is a sequence of atoms.  The atoms "/", ",", "_", "." and  *)
(* "\n" are the single characters the code searches for; every other atom  *)
(* stands for a non-empty run of characters holding none of them.          *)
(***************************************************************************)
EXTENDS Integers, Sequences, FiniteSets, TLC

\* ------------------------------------------------------------------ bounds
MaxAttempts == 2
MaxFeeds == 2
MaxSegs == 4
MaxLines == 3
MaxBytes == 4
MaxChunk == 3
MaxRecords == 2

\* ------------------------------------------------------- program constants
\* chunk_size=65000, the default of bz2_compress_file
DefaultChunkSize == 65000
\* config_get('auditor', 'threshold', False, 0.2): the default 0.2 = 1/5
ThresholdNum == 1
ThresholdDen == 5

\* ----------------------------------------------------------------- str
\* None and a str value, for a result that is one or the other
None == [isNone |-> TRUE, str |-> <<>>]
Str(s) == [isNone |-> FALSE, str |-> s]

RECURSIVE Find(_, _)
\* s.find(c) + 1: the place of the first c in s, 0 when there is none
Find(s, c) ==
  IF s = <<>> THEN 0
  ELSE IF Head(s) = c THEN 1
  ELSE LET k == Find(Tail(s), c) IN IF k = 0 THEN 0 ELSE k + 1

RECURSIVE RFind(_, _)
\* s.rfind(c) + 1: the place of the last c in s, 0 when there is none
RFind(s, c) ==
  IF s = <<>> THEN 0
  ELSE IF s[Len(s)] = c THEN Len(s)
  ELSE RFind(SubSeq(s, 1, Len(s) - 1), c)

RECURSIVE Split(_, _)
\* s.split(c): the pieces between the c's; [s] when s holds no c
Split(s, c) ==
  LET k == Find(s, c) IN
  IF k = 0 THEN <<s>>
  ELSE <<SubSeq(s, 1, k - 1)>> \o Split(SubSeq(s, k + 1, Len(s)), c)

\* s.split(c, 1): split at the first c only
Split1(s, c) ==
  LET k == Find(s, c) IN
  IF k = 0 THEN <<s>>
  ELSE <<SubSeq(s, 1, k - 1), SubSeq(s, k + 1, Len(s))>>

RECURSIVE Join(_, _)
\* c.join(items)
Join(c, items) ==
  IF items = <<>> THEN <<>>
  ELSE IF Len(items) = 1 THEN items[1]
  ELSE items[1] \o <<c>> \o Join(c, Tail(items))

Whitespace == {"\n", " "}

RECURSIVE RStrip(_)
\* s.rstrip(): s without its trailing whitespace
RStrip(s) ==
  IF s = <<>> THEN s
  ELSE IF s[Len(s)] \in Whitespace THEN RStrip(SubSeq(s, 1, Len(s) - 1))
  ELSE s

RECURSIVE ReadLines(_)
\* for line in f: the lines of a file, each with its "\n"; the last one may
\* lack it
ReadLines(data) ==
  LET k == Find(data, "\n") IN
  IF data = <<>> THEN <<>>
  ELSE IF k = 0 THEN <<data>>
  ELSE <<SubSeq(data, 1, k)>> \o ReadLines(SubSeq(data, k + 1, Len(data)))

\* s[:k] of Python for k >= -1 (k = -1 drops the last character)
Prefix(s, k) ==
  IF k >= 0 THEN SubSeq(s, 1, IF k < Len(s) THEN k ELSE Len(s))
  ELSE SubSeq(s, 1, Len(s) - 1)

\* os.path.basename(p): what follows the last "/"
basename(p) == SubSeq(p, RFind(p, "/") + 1, Len(p))

\* os.path.join(dir, name)
path_join(dir, name) ==
  IF dir # <<>> /\ dir[Len(dir)] = "/" THEN dir \o name
  ELSE dir \o <<"/">> \o name

\* ------------------------------------------------- guess_replica_info
\* the test of the elif with the bound off by one
guess_is_group_or_user_2(items) ==
  Len(items) >= 2 /\ items[1] \in {<<"group">>, <<"user">>}

\* len(items) > 2 and items[0] in ['group', 'user']
guess_is_group_or_user(items) ==
  Len(items) > 2 /\ items[1] \in {<<"group">>, <<"user">>}

\* guess_replica_info(path): the tuple (scope, name)
guess_replica_info(path) ==
  LET items == Split(path, "/") IN
  IF Len(items) = 1 THEN <<None, path>>
  ELSE IF guess_is_group_or_user(items)
       THEN <<Str(Join(".", SubSeq(items, 1, 2))), items[Len(items)]>>
  ELSE <<Str(items[1]), items[Len(items)]>>

\* -------------------------------------------------------- result files
\* a file: its bytes; a missing path is NoFile
NoFile == [exists |-> FALSE, data |-> <<>>]
File(data) == [exists |-> TRUE, data |-> data]

ResultsDir == <<"/", "audit", "_", "results">>
RSE1 == <<"E1">>
RSE2 == <<"SITE", "_", "DISK">>
Endpoints == {RSE1, RSE2}
Date1 == "20240110"
Date2 == "20240111"
Dates == {Date1, Date2}
Bz2Suffix == <<".", "bz2">>

\* os.path.join(results_dir, '{0}_{1}'.format(rse, rsedate.strftime('%Y%m%d')))
results_path(rse, date) == path_join(ResultsDir, rse \o <<"_">> \o <<date>>)

\* '{}.bz2'.format(source)
bz2_destination(source) == source \o Bz2Suffix

Paths ==
  {results_path(e, d) : e \in Endpoints, d \in Dates}
  \cup {bz2_destination(results_path(e, d)) : e \in Endpoints, d \in Dates}

\* the skip test looking at the plain file only
result_exists_plain_only(files, path) == files[path].exists

\* the skip test looking at the compressed file only
result_exists_bz2_only(files, path) == files[bz2_destination(path)].exists

\* os.path.exists(results_path + '.bz2') or os.path.exists(results_path)
result_exists(files, path) ==
  files[bz2_destination(path)].exists \/ files[path].exists

\* result.csv() of a diff record, as the result file format has it: LABEL,path
csv(result) == result.label \o <<",">> \o result.path

\* a line written without its end
result_line_unended(result) == csv(result)

\* '{0}\n'.format(result.csv())
result_line(result) == csv(result) \o <<"\n">>

\* bz2: the stream BZ2File writes is a header, the compressed chunks, and
\* the end-of-stream mark that close() writes
Bz2Header == "BZh"
Bz2Eos == "EOS"
bz2_valid(data) ==
  Len(data) >= 2 /\ data[1] = Bz2Header /\ data[Len(data)] = Bz2Eos
bz2_decompress(data) == SubSeq(data, 2, Len(data) - 1)

\* ------------------------------------------------------ process_output
\* os.path.basename(output[:output.rfind('_')])
rse_of_output(output) == basename(Prefix(output, RFind(output, "_") - 1))

\* the dict appended to dark_replicas
dark_replica(path) ==
  LET info == guess_replica_info(path) IN
  [path |-> path, scope |-> info[1], name |-> info[2]]

\* a label test that lets every label but DARK pass as LOST
label_ok_any(label) == TRUE

\* the labels the loop accepts; any other raises ValueError
label_ok(label) == label \in {<<"DARK">>, <<"LOST">>}

\* a test that takes LOST records for DARK ones
is_dark_or_lost(label) == label \in {<<"DARK">>, <<"LOST">>}

\* if label == 'DARK'
is_dark(label) == label = <<"DARK">>

RECURSIVE parse_lines(_, _)
\* the for loop of process_output over the lines left, dark_replicas so far
\* in acc: the list, or the ValueError of a line that does not unpack into
\* (label, path) or whose label is unexpected
parse_lines(lines, acc) ==
  IF lines = <<>> THEN [err |-> "", dark |-> acc]
  ELSE LET fields == Split1(RStrip(Head(lines)), ",") IN
       IF Len(fields) # 2 THEN [err |-> "ValueError", dark |-> acc]
       ELSE IF ~label_ok(fields[1]) THEN [err |-> "ValueError", dark |-> acc]
       ELSE IF is_dark(fields[1])
            THEN parse_lines(Tail(lines), Append(acc, dark_replica(fields[2])))
       ELSE parse_lines(Tail(lines), acc)

\* the try block of process_output on the bytes of the result file
parse_output(data) == parse_lines(ReadLines(data), <<>>)

\* the guard with >= for >
exceeds_threshold_ge(ndark, files) ==
  ndark * ThresholdDen >= ThresholdNum * files

\* len(dark_replicas) > threshold * usage['files'], threshold = Num/Den
exceeds_threshold(ndark, files) ==
  ndark * ThresholdDen > ThresholdNum * files

\* --------------------------------------------------- bz2_compress_file
\* plain.read(chunk_size) at offset pos
read_chunk(data, pos, size) ==
  SubSeq(data, pos + 1,
         IF pos + size < Len(data) THEN pos + size ELSE Len(data))

\* ------------------------------------------------------------- state
Workers == {"w1", "w2"}

\* what the collaborators may return in the model
\* Consistency.dump: the diff records of an endpoint
DarkA == [label |-> <<"DARK">>, path |-> <<"/", "data", "/", "a.root">>]
LostB == [label |-> <<"LOST">>, path |-> <<"/", "data", "/", "b.root">>]
DiffE2E == <<DarkA, LostB>>
DiffOutputs == {<<>>, DiffE2E}
\* get_rse_usage(rse, source='rucio')[0]['files']
FileCounts == {0, 100}

VARIABLES
  queue,       \* the primary channel: tasks <<rse, attemps>>
  retry,       \* the retry channel
  terminate,   \* the stop signal
  wk,          \* per worker: its place in check() and its locals
  fs,          \* the results directory: path -> file
  cache,       \* per endpoint: the cache artifacts present
  dumpdate,    \* per endpoint: the date of its current site dump
  quarantine,  \* the Quarantine Store: the batches submitted, in order
  usage,       \* per endpoint: the file count the usage source reports
  diffs,       \* per endpoint: the records the diff of its dump yields
  cfg,         \* the configuration: the initial budget of a task, keep_dumps,
               \* and the parameters of process_output and bz2_compress_file
  hist,        \* per endpoint: what has happened to its task (history)
  done,        \* per key <<rse, date>>: the diffs run to the end (history)
  submitted,   \* per key <<rse, date>>: the batches submitted (history)
  logpipes,    \* per worker: the records in its log pipe, oldest first
  logfile,     \* the aggregated log file: the records appended, in order
  lg,          \* the aggregator: its place in activity_logger, the ready pipes
  emitted,     \* per worker: the records it has sent, in order (history)
  arg,         \* the input of the function under study
  ret          \* its result

\* what the environment fixes for a whole run
env == <<usage, diffs, cfg>>

\* the log pipes, the log file and the aggregator
logs == <<logpipes, logfile, lg, emitted>>

vars == <<queue, retry, terminate, wk, fs, cache, dumpdate, quarantine, env,
          hist, done, submitted, logs, arg, ret>>

\* the places of a worker between its dequeue and its retry decision
Busy == {"dump", "snap", "write", "proc", "bz2_open", "bz2_loop",
         "bz2_remove", "cleanup", "retry"}

\* a worker at the head of the while loop, its locals unset
W0 == [pc |-> "loop", rse |-> <<>>, attemps |-> 0, success |-> FALSE,
       err |-> "", date |-> "", output |-> None, rest |-> <<>>,
       tmp |-> <<>>, pos |-> 0,
       \* history of this iteration
       diff |-> <<>>, had |-> FALSE, snapreq |-> FALSE, diffreq |-> FALSE,
       files |-> -1, subs |-> <<>>,
       \* history of this worker: the tasks it received after terminate.set()
       late |-> 0]

\* the aggregator at the head of its while loop, no pipe selected
Lg0 == [pc |-> "loop", ready |-> <<>>]

H0 == [feeds |-> 0, runs |-> 0, succ |-> FALSE, owed |-> 0, pushes |-> 0,
       spent |-> FALSE]

Cfg0 == [attempts |-> 0, keep_dumps |-> FALSE, sanity_check |-> TRUE,
         compress |-> TRUE, chunk_size |-> DefaultChunkSize]

InChannel(ch, e) == \E i \in 1..Len(ch) : ch[i][1] = e
InFlight(e) == \E w \in Workers : wk[w].pc \in Busy /\ wk[w].rse = e
Present(e) == InChannel(queue, e) \/ InChannel(retry, e) \/ InFlight(e)

\* the daemon just started: empty channels, no signal, nothing on disk, nothing
\* submitted
Quiet ==
  /\ queue = <<>>
  /\ retry = <<>>
  /\ terminate = FALSE
  /\ cache = [e \in Endpoints |-> {}]
  /\ dumpdate = [e \in Endpoints |-> Date1]
  /\ quarantine = <<>>
  /\ hist = [e \in Endpoints |-> H0]
  /\ done = [k \in Endpoints \X Dates |-> 0]
  /\ submitted = [k \in Endpoints \X Dates |-> 0]
  /\ logpipes = [w \in Workers |-> <<>>]
  /\ logfile = <<>>
  /\ lg = Lg0
  /\ emitted = [w \in Workers |-> <<>>]

Init ==
  /\ Quiet
  /\ wk = [w \in Workers |-> W0]
  /\ fs = [p \in Paths |-> NoFile]
  /\ usage = [e \in Endpoints |-> 100]
  /\ diffs = [e \in Endpoints |-> IF e = RSE1 THEN DiffE2E ELSE <<>>]
  /\ cfg \in {[Cfg0 EXCEPT !.keep_dumps = k, !.attempts = n] :
               k \in BOOLEAN, n \in 0..MaxAttempts}
  /\ arg = <<>>
  /\ ret = <<>>

\* ----------------------------------------------------- the environment
\* the external feed: puts an endpoint on the primary channel with the
\* configured budget, once
Feed(e) ==
  /\ hist[e].feeds = 0
  /\ queue' = Append(queue, <<e, cfg.attempts>>)
  /\ hist' = [hist EXCEPT ![e] = [H0 EXCEPT !.feeds = 1]]
  /\ UNCHANGED <<retry, terminate, wk, fs, cache, dumpdate, quarantine, env, submitted, logs,
                 done, arg, ret>>

\* the external feed of a later cycle: the endpoint is fed again once its
\* task is in no channel and with no worker
Refeed(e) ==
  /\ hist[e].feeds \in 1..(MaxFeeds - 1)
  /\ ~Present(e)
  /\ queue' = Append(queue, <<e, cfg.attempts>>)
  /\ hist' = [hist EXCEPT ![e] = [H0 EXCEPT !.feeds = hist[e].feeds + 1]]
  /\ UNCHANGED <<retry, terminate, wk, fs, cache, dumpdate, quarantine, env, submitted, logs,
                 done, arg, ret>>

\* the feeder: drains the retry channel back into the primary channel
Feeder ==
  /\ retry # <<>>
  /\ queue' = Append(queue, Head(retry))
  /\ retry' = Tail(retry)
  /\ UNCHANGED <<terminate, wk, fs, cache, dumpdate, quarantine, env, submitted, logs, hist,
                 done, arg, ret>>

\* terminate.set()
SetTerminate ==
  /\ ~terminate
  /\ terminate' = TRUE
  /\ UNCHANGED <<queue, retry, wk, fs, cache, dumpdate, quarantine, env, submitted, logs, hist,
                 done, arg, ret>>

\* the site publishes a newer dump of an endpoint
NewDump(e) ==
  /\ dumpdate[e] = Date1
  /\ dumpdate' = [dumpdate EXCEPT ![e] = Date2]
  /\ UNCHANGED <<queue, retry, terminate, wk, fs, cache, quarantine, env, submitted, logs,
                 hist, done, arg, ret>>

\* ------------------------------------------------------------- check()
\* the end of the try statement of check(): success is set by the except or
\* the else clause and the finally clause logs it
Finish(w, r, ok, err) ==
  /\ wk' = [wk EXCEPT ![w] = [r EXCEPT !.success = ok, !.err = err,
                                       !.pc = "cleanup"]]
  /\ hist' = [hist EXCEPT ![r.rse].succ = @ \/ ok,
                          ![r.rse].owed = IF ~ok /\ r.attemps > 0
                                          THEN @ + 1 ELSE @,
                          ![r.rse].spent = @ \/ (~ok /\ r.attemps = 0)]

\* a step inside the try statement
Step(w, r) ==
  /\ wk' = [wk EXCEPT ![w] = r]
  /\ UNCHANGED hist

\* while not terminate.is_set()
LoopTest(w) ==
  /\ wk[w].pc = "loop"
  /\ wk' = [wk EXCEPT ![w].pc = IF terminate THEN "exited" ELSE "get"]
  /\ UNCHANGED <<queue, retry, terminate, fs, cache, dumpdate, quarantine,
                 env, submitted, logs, hist, done, arg, ret>>

\* a get that leaves the task on the channel
dequeue_peek(q) == q

\* queue.get(): the channel after its first task is taken
dequeue(q) == Tail(q)

\* rse, attemps = queue.get(timeout=30), a task received
Get(w) ==
  /\ wk[w].pc = "get"
  /\ queue # <<>>
  /\ queue' = dequeue(queue)
  /\ wk' = [wk EXCEPT ![w] = [W0 EXCEPT !.pc = "dump",
                                       !.rse = Head(queue)[1],
                                       !.attemps = Head(queue)[2],
                                       !.late = IF terminate
                                                THEN wk[w].late + 1
                                                ELSE wk[w].late]]
  /\ hist' = [hist EXCEPT ![Head(queue)[1]].runs = @ + 1]
  /\ UNCHANGED <<retry, terminate, fs, cache, dumpdate, quarantine, env, submitted, logs, done,
                 arg, ret>>

\* except Queue.Empty: continue
GetTimeout(w) ==
  /\ wk[w].pc = "get"
  /\ queue = <<>>
  /\ wk' = [wk EXCEPT ![w].pc = "loop"]
  /\ UNCHANGED <<queue, retry, terminate, fs, cache, dumpdate, quarantine,
                 env, submitted, logs, hist, done, arg, ret>>

\* consistency(), lines 45-50: the site dump and the skip test
Dump(w) ==
  /\ wk[w].pc = "dump"
  /\ LET r == wk[w]
         e == r.rse
         d == dumpdate[e]
         r1 == [r EXCEPT !.date = d, !.had = (done[<<e, d>>] > 0)]
     IN \/ /\ Finish(w, r, FALSE, "DumpError")
           /\ UNCHANGED cache
        \/ /\ cache' = [cache EXCEPT ![e] = @ \cup {"ddmendpoint"}]
           /\ IF result_exists(fs, results_path(e, d))
              THEN Finish(w, r1, TRUE, "")
              ELSE Step(w, [r1 EXCEPT !.pc = "snap"])
  /\ UNCHANGED <<queue, retry, terminate, fs, dumpdate, quarantine, env, submitted, logs, done,
                 arg, ret>>

\* consistency(), lines 52-64: the two catalog snapshots, the diff request,
\* the results directory and the temporary file
Snap(w) ==
  /\ wk[w].pc = "snap"
  /\ LET r == wk[w]
         e == r.rse
     IN \/ \E stage \in {"prev", "next", "diff"} :
             /\ cache' = [cache EXCEPT ![e] =
                            IF stage = "prev" THEN @
                            ELSE @ \cup {"replicafromhdfs"}]
             /\ Finish(w, [r EXCEPT !.snapreq = TRUE,
                                    !.diffreq = (stage = "diff")],
                       FALSE, "DownloadError")
        \/ /\ cache' = [cache EXCEPT ![e] = @ \cup {"replicafromhdfs"}]
           /\ Step(w, [r EXCEPT !.snapreq = TRUE, !.diffreq = TRUE,
                                !.rest = diffs[e], !.diff = diffs[e],
                                !.tmp = <<>>, !.pc = "write"])
  /\ UNCHANGED <<queue, retry, terminate, fs, dumpdate, quarantine, env, submitted, logs, done,
                 arg, ret>>

\* consistency(), lines 64-68: one record of the diff written to the
\* temporary file; the file published under results_path when the diff is
\* exhausted; the temporary file dropped when the diff or the write raises
Write(w) ==
  /\ wk[w].pc = "write"
  /\ LET r == wk[w]
         path == results_path(r.rse, r.date)
     IN \/ /\ r.rest # <<>>
           /\ Step(w, [r EXCEPT !.tmp = @ \o result_line(Head(r.rest)),
                                !.rest = Tail(@)])
           /\ UNCHANGED <<fs, done>>
        \/ /\ r.rest = <<>>
           /\ fs' = [fs EXCEPT ![path] = File(r.tmp)]
           /\ done' = [done EXCEPT ![<<r.rse, r.date>>] = @ + 1]
           /\ Step(w, [r EXCEPT !.output = Str(path), !.tmp = <<>>,
                                !.pc = "proc"])
        \/ /\ Finish(w, [r EXCEPT !.tmp = <<>>, !.rest = <<>>], FALSE,
                     "DiffError")
           /\ UNCHANGED <<fs, done>>
  /\ UNCHANGED <<queue, retry, terminate, cache, dumpdate, quarantine, env, submitted, logs,
                 arg, ret>>

\* process_output(output), lines 135-170, up to the submission
Proc(w) ==
  /\ wk[w].pc = "proc"
  /\ LET r == wk[w]
         path == r.output.str
         parsed == parse_output(fs[path].data)
         rse == rse_of_output(path)
         files == usage[rse]
     IN \/ \* open(output) raises: logged and re-raised
           /\ ~fs[path].exists
           /\ Finish(w, r, FALSE, "IOError")
           /\ UNCHANGED <<quarantine, submitted>>
        \/ /\ fs[path].exists
           /\ parsed.err # ""
           /\ Finish(w, r, FALSE, parsed.err)
           /\ UNCHANGED <<quarantine, submitted>>
        \/ \* get_rse_usage raises (always, for an rse it does not know)
           /\ fs[path].exists
           /\ parsed.err = ""
           /\ Finish(w, r, FALSE, "UsageError")
           /\ UNCHANGED <<quarantine, submitted>>
        \/ /\ fs[path].exists
           /\ parsed.err = ""
           /\ rse \in DOMAIN usage
           /\ IF cfg.sanity_check /\ exceeds_threshold(Len(parsed.dark), files)
              THEN /\ Finish(w, [r EXCEPT !.files = files], FALSE,
                             "AssertionError")
                   /\ UNCHANGED <<quarantine, submitted>>
              ELSE \/ \* add_quarantined_replicas raises
                      /\ Finish(w, [r EXCEPT !.files = files], FALSE,
                                "QuarantineError")
                      /\ UNCHANGED <<quarantine, submitted>>
                   \/ LET batch == [rse |-> rse, replicas |-> parsed.dark]
                          r1 == [r EXCEPT !.files = files,
                                          !.subs = Append(@, batch)]
                      IN /\ quarantine' = Append(quarantine, batch)
                         /\ submitted' = [submitted EXCEPT
                                           ![<<r.rse, r.date>>] = @ + 1]
                         /\ IF cfg.compress
                            THEN Step(w, [r1 EXCEPT !.pc = "bz2_open"])
                            ELSE Finish(w, r1, TRUE, "")
  /\ UNCHANGED <<queue, retry, terminate, fs, cache, dumpdate, env, logs, done, arg,
                 ret>>

\* bz2_compress_file(source), line 107: both files opened
Bz2Open(w) ==
  /\ wk[w].pc = "bz2_open"
  /\ LET r == wk[w]
         source == r.output.str
     IN \/ \* open(source) or BZ2File(destination, 'w') raises
           /\ Finish(w, r, FALSE, "IOError")
           /\ UNCHANGED fs
        \/ /\ fs[source].exists
           /\ fs' = [fs EXCEPT ![bz2_destination(source)] = File(<<Bz2Header>>)]
           /\ Step(w, [r EXCEPT !.pos = 0, !.pc = "bz2_loop"])
  /\ UNCHANGED <<queue, retry, terminate, cache, dumpdate, quarantine, env, submitted, logs,
                 done, arg, ret>>

\* a loop that takes a short chunk for the end of the file
loop_ends_short(chunk, size) == Len(chunk) < size

\* if not chunk: break
loop_ends(chunk, size) == chunk = <<>>

\* bz2_compress_file(source), lines 108-112: one chunk read and written, or
\* the break at the end of the file; leaving the with statement closes the
\* compressed file
Bz2Loop(w) ==
  /\ wk[w].pc = "bz2_loop"
  /\ LET r == wk[w]
         source == r.output.str
         dest == bz2_destination(source)
         chunk == read_chunk(fs[source].data, r.pos, cfg.chunk_size)
     IN \/ /\ ~loop_ends(chunk, cfg.chunk_size)
           /\ fs' = [fs EXCEPT ![dest].data = @ \o chunk]
           /\ Step(w, [r EXCEPT !.pos = @ + Len(chunk)])
        \/ /\ loop_ends(chunk, cfg.chunk_size)
           /\ fs' = [fs EXCEPT ![dest].data = @ \o <<Bz2Eos>>]
           /\ Step(w, [r EXCEPT !.pos = @ + Len(chunk), !.pc = "bz2_remove"])
        \/ \* read() or write() raises; close() ends the stream, or fails too
           \E closed \in BOOLEAN :
             /\ fs' = [fs EXCEPT ![dest].data =
                         IF closed THEN @ \o <<Bz2Eos>> ELSE @]
             /\ Finish(w, r, FALSE, "IOError")
  /\ UNCHANGED <<queue, retry, terminate, cache, dumpdate, quarantine, env, submitted, logs,
                 done, arg, ret>>

\* bz2_compress_file(source), lines 113-114: os.remove(source)
Bz2Remove(w) ==
  /\ wk[w].pc = "bz2_remove"
  /\ LET r == wk[w]
         source == r.output.str
     IN \/ /\ Finish(w, r, FALSE, "OSError")
           /\ UNCHANGED fs
        \/ /\ fs' = [fs EXCEPT ![source] = NoFile]
           /\ Finish(w, r, TRUE, "")
  /\ UNCHANGED <<queue, retry, terminate, cache, dumpdate, quarantine, env, submitted, logs,
                 done, arg, ret>>

\* check(), lines 221-226: the cache artifacts of the endpoint removed; an
\* os.remove that raises is not caught and ends check()
Cleanup(w) ==
  /\ wk[w].pc = "cleanup"
  /\ LET e == wk[w].rse
     IN \/ /\ cfg.keep_dumps
           /\ wk' = [wk EXCEPT ![w].pc = "retry"]
           /\ UNCHANGED cache
        \/ /\ ~cfg.keep_dumps
           /\ cache' = [cache EXCEPT ![e] = {}]
           /\ wk' = [wk EXCEPT ![w].pc = "retry"]
        \/ /\ ~cfg.keep_dumps
           /\ \E left \in (SUBSET cache[e]) \ {{}} :
                cache' = [cache EXCEPT ![e] = left]
           /\ wk' = [wk EXCEPT ![w] = [W0 EXCEPT !.pc = "crashed",
                                                !.late = wk[w].late]]
  /\ UNCHANGED <<queue, retry, terminate, fs, dumpdate, quarantine, env, submitted, logs, hist,
                 done, arg, ret>>

\* a retry decision that ignores the outcome of the check
should_retry_always(success, attemps) == attemps > 0

\* not success and attemps > 0
should_retry(success, attemps) == ~success /\ attemps > 0

\* (rse, attemps - 1)
retry_task(rse, attemps) == <<rse, attemps - 1>>

\* check(), lines 228-229: the retry decision
Retry(w) ==
  /\ wk[w].pc = "retry"
  /\ LET r == wk[w]
     IN IF should_retry(r.success, r.attemps)
        THEN /\ retry' = Append(retry, retry_task(r.rse, r.attemps))
             /\ hist' = [hist EXCEPT ![r.rse].pushes = @ + 1]
             /\ wk' = [wk EXCEPT ![w] = [W0 EXCEPT !.late = r.late]]
        ELSE /\ wk' = [wk EXCEPT ![w] = [W0 EXCEPT !.late = r.late]]
             /\ UNCHANGED <<retry, hist>>
  /\ UNCHANGED <<queue, terminate, fs, cache, dumpdate, quarantine, env, submitted, logs, done,
                 arg, ret>>

\* one step of a worker running check()
Worker(w) ==
  \/ LoopTest(w) \/ Get(w) \/ GetTimeout(w)
  \/ Dump(w) \/ Snap(w) \/ Write(w)
  \/ Proc(w) \/ Bz2Open(w) \/ Bz2Loop(w) \/ Bz2Remove(w)
  \/ Cleanup(w) \/ Retry(w)

\* the pool: every worker, the feed of each endpoint, the feeder, the stop
\* signal
Next ==
  \/ \E e \in Endpoints : Feed(e)
  \/ Feeder
  \/ \E w \in Workers : Worker(w)

Spec == Init /\ [][Next]_vars

\* the check pipeline over several cycles: one worker and one endpoint, every
\* diff and usage the collaborators may give, the endpoint fed again once its
\* task is over, a newer site dump
Single == {"w1"}
Audited == {RSE1}

InitPipeline ==
  /\ Quiet
  /\ wk = [w \in Workers |-> W0]
  /\ fs = [p \in Paths |-> NoFile]
  /\ usage \in {[e \in Endpoints |-> IF e \in Audited THEN n ELSE 100] :
                 n \in FileCounts}
  /\ diffs \in {[e \in Endpoints |-> IF e \in Audited THEN d ELSE <<>>] :
                 d \in DiffOutputs}
  /\ cfg \in {[Cfg0 EXCEPT !.keep_dumps = k, !.attempts = n] :
               k \in BOOLEAN, n \in 0..MaxAttempts}
  /\ arg = <<>>
  /\ ret = <<>>

NextPipeline ==
  \/ \E e \in Audited : Feed(e)
  \/ \E e \in Audited : Refeed(e)
  \/ Feeder
  \/ \E e \in Audited : NewDump(e)
  \/ \E w \in Single : Worker(w)

SpecPipeline == InitPipeline /\ [][NextPipeline]_vars

\* ---------------------------------------------------------------- claims
Count(ch, e) == Cardinality({i \in 1..Len(ch) : ch[i][1] = e})
Holders(e) == {w \in Workers : wk[w].pc \in Busy /\ wk[w].rse = e}

\* C1: with the workers running check() concurrently, the feeder moving tasks
\* from the retry channel to the primary channel and each endpoint fed once,
\* an endpoint is at any time in at most one place: one slot of one channel,
\* or one worker between its dequeue and its retry decision
C1_OnePlacePerEndpoint ==
  \A e \in Endpoints :
    Count(queue, e) + Count(retry, e) + Cardinality(Holders(e)) <= 1

\* C1 witness: both workers are processing, one of them a task that came
\* back through the retry channel and the feeder
C1_Witness ==
  /\ \A w \in Workers : wk[w].pc \in Busy
  /\ \E w \in Workers : hist[wk[w].rse].pushes > 0

\* C2: a task fed with budget N whose check fails on every attempt is run
\* exactly N+1 times before it is dropped, and no task carries a negative
\* budget
C2_FailingTaskRunsAllAttempts ==
  /\ \A e \in Endpoints :
       (hist[e].feeds > 0 /\ ~Present(e) /\ ~hist[e].succ)
         => hist[e].runs = cfg.attempts + 1
  /\ \A i \in 1..Len(queue) : queue[i][2] >= 0
  /\ \A i \in 1..Len(retry) : retry[i][2] >= 0
  /\ \A w \in Workers : wk[w].attemps >= 0

\* what holds of C2 on the code: as long as no worker has died in its cleanup
C2_HoldsWhileNoWorkerCrashed ==
  (\A w \in Workers : wk[w].pc # "crashed") => C2_FailingTaskRunsAllAttempts

\* C3: every failed check of a task with budget left has been followed by one
\* push onto the retry channel once its iteration is over
C3_FailedTaskIsPushed ==
  \A e \in Endpoints : ~InFlight(e) => hist[e].pushes = hist[e].owed

\* C4: no worker leaves its loop because the removal of a cache artifact
\* failed
C4_CleanupErrorNotFatal == \A w \in Workers : wk[w].pc # "crashed"

\* what holds of C3 on the code: as long as no worker has died in its cleanup
C3_HoldsWhileNoWorkerCrashed ==
  (\A w \in Workers : wk[w].pc # "crashed") => C3_FailedTaskIsPushed

\* C7: an invocation of consistency() for a key <<rse, date>> for which an
\* earlier invocation ran the diff to its end and returned the result path
\* requests no catalog snapshot and no diff and returns None; so the diff of a
\* key is run to its end at most once
C7_SecondInvocationSkips ==
  /\ \A w \in Workers :
       (wk[w].pc \in Busy \ {"dump"} /\ wk[w].had)
         => /\ ~wk[w].snapreq
            /\ ~wk[w].diffreq
            /\ wk[w].output = None
            /\ wk[w].success
            /\ wk[w].pc \in {"cleanup", "retry"}
  /\ \A k \in DOMAIN done : done[k] <= 1

\* C7 witness: a second invocation has returned None for a key whose result
\* file the first one wrote and process_output has replaced by its compressed
\* form
C7_Witness ==
  \E w \in Workers :
    /\ wk[w].pc = "cleanup"
    /\ wk[w].had
    /\ wk[w].output = None
    /\ ~fs[results_path(wk[w].rse, wk[w].date)].exists
    /\ fs[bz2_destination(results_path(wk[w].rse, wk[w].date))].exists

\* the end-to-end scenario: E1, the dump dated 20240110, the diff
\* [DARK,/data/a.root], [LOST,/data/b.root] run in this iteration, a file
\* count of 100, and no collaborator has raised
E2EScenario(w) ==
  /\ wk[w].rse = RSE1
  /\ wk[w].date = Date1
  /\ wk[w].diff = DiffE2E
  /\ usage[RSE1] = 100
  /\ wk[w].pc = "retry"
  /\ wk[w].success

E2EContent ==
  <<"DARK", ",", "/", "data", "/", "a.root", "\n",
    "LOST", ",", "/", "data", "/", "b.root", "\n">>

\* what the iteration of the scenario leaves, but for the scope of the record
E2EOutcome(w, scope) ==
  /\ wk[w].subs =
       <<[rse |-> RSE1,
          replicas |-> <<[path |-> <<"/", "data", "/", "a.root">>,
                          scope |-> scope,
                          name |-> <<"a.root">>]>>]>>
  /\ ~fs[results_path(RSE1, Date1)].exists
  /\ bz2_valid(fs[bz2_destination(results_path(RSE1, Date1))].data)
  /\ bz2_decompress(fs[bz2_destination(results_path(RSE1, Date1))].data)
       = E2EContent

\* the retry decision of the scenario pushes nothing
E2ENoRetry(w) ==
  (E2EScenario(w) /\ wk'[w].pc = "loop") => retry' = retry

\* C8 as stated: the iteration of the scenario submits one batch for E1 with
\* the one DARK record {path /data/a.root, scope "data", name a.root}, leaves
\* the result file compressed and pushes nothing onto the retry channel
C8_EndToEndScopeData ==
  /\ [](\A w \in Workers : E2EScenario(w) => E2EOutcome(w, Str(<<"data">>)))
  /\ [][\A w \in Workers : E2ENoRetry(w)]_vars

\* C8 amended: the same with the scope the code gives the absolute path
\* /data/a.root, its empty first segment ""
C8_EndToEndScopeEmpty ==
  /\ [](\A w \in Workers : E2EScenario(w) => E2EOutcome(w, Str(<<>>)))
  /\ [][\A w \in Workers : E2ENoRetry(w)]_vars

\* C8 witness: the iteration of the scenario is at its retry decision
C8_Witness == \E w \in Workers : E2EScenario(w) /\ Len(wk[w].subs) = 1

\* ------------------------------------------ the skip path and the result file
\* the worker's invocation of consistency() has returned None
Skipped(w) ==
  /\ wk[w].pc \in {"cleanup", "retry"}
  /\ wk[w].date # ""
  /\ wk[w].output = None
  /\ wk[w].success

\* C13: when the skip test of consistency() finds a plain or compressed
\* result file for the endpoint and the date of its dump, the check is a
\* success with None returned, process_output not called and nothing
\* submitted; from there to the end of the iteration the result files and the
\* Quarantine Store stay as they were and nothing is pushed onto the retry
\* channel
C13_ExistingResultIsSuccess ==
  [][\A w \in Workers :
       /\ (/\ wk[w].pc = "dump"
           /\ wk'[w].pc # "dump"
           /\ wk'[w].date # ""
           /\ result_exists(fs, results_path(wk[w].rse, wk'[w].date)))
            => /\ Skipped(w)'
               /\ wk'[w].subs = <<>>
               /\ ~wk'[w].snapreq
               /\ UNCHANGED <<fs, quarantine, submitted, retry>>
       /\ (Skipped(w) /\ wk'[w] # wk[w])
            => /\ wk'[w].pc \in {"retry", "loop", "crashed"}
               /\ UNCHANGED <<fs, quarantine, submitted, retry>>
    ]_vars

\* C13 witness: the retry decision after a skip on a result file that was
\* left plain, nothing having been pushed for the endpoint
C13_Witness ==
  \E w \in Workers :
    /\ Skipped(w)
    /\ wk[w].pc = "retry"
    /\ wk[w].attemps > 0
    /\ fs[results_path(wk[w].rse, wk[w].date)].exists
    /\ retry = <<>>

\* the file holds one line per record of the diff, in order
HoldsDiff(data, diff) ==
  LET lines == ReadLines(data)
  IN /\ Len(lines) = Len(diff)
     /\ \A i \in 1..Len(diff) :
          Split1(RStrip(lines[i]), ",") = <<diff[i].label, diff[i].path>>

ConsistencyErrors == {"DumpError", "DownloadError", "DiffError"}

\* C14: a result path either does not exist or holds one line per record of
\* the complete diff; an invocation of consistency() that raises leaves the
\* results directory as it was, and when it raises after the skip test there
\* is no result file for its key, plain or compressed
C14_ResultCompleteOrAbsent ==
  /\ [](\A e \in Endpoints : \A d \in Dates :
          fs[results_path(e, d)].exists
            => HoldsDiff(fs[results_path(e, d)].data, diffs[e]))
  /\ [](\A w \in Workers :
          (wk[w].pc \in {"cleanup", "retry"}
             /\ wk[w].err \in {"DownloadError", "DiffError"})
            => ~result_exists(fs, results_path(wk[w].rse, wk[w].date)))
  /\ [][\A w \in Workers :
          (wk'[w].pc = "cleanup" /\ wk[w].pc # "cleanup"
             /\ wk'[w].err \in ConsistencyErrors)
            => UNCHANGED <<fs, done>>]_vars

\* C14 witness: the diff has raised after a record was written to the
\* temporary file, in a retry of the task
C14_Witness ==
  \E w \in Workers :
    /\ wk[w].pc = "cleanup"
    /\ wk[w].err = "DiffError"
    /\ wk[w].diff # <<>>
    /\ wk[w].attemps < cfg.attempts
    /\ ~result_exists(fs, results_path(wk[w].rse, wk[w].date))

\* the result file of the key exists and its diff has a DARK record
HasDark(e, d) ==
  /\ result_exists(fs, results_path(e, d))
  /\ \E i \in 1..Len(diffs[e]) : is_dark(diffs[e][i].label)

\* C16: a check that ends in success while the result file of the endpoint's
\* dump exists and has DARK records has them submitted to the Quarantine
\* Store, in this attempt or an earlier one
C16_SuccessImpliesSubmitted ==
  \A w \in Workers :
    (wk[w].pc \in {"cleanup", "retry"} /\ wk[w].success /\ wk[w].date # ""
       /\ HasDark(wk[w].rse, wk[w].date))
      => submitted[<<wk[w].rse, wk[w].date>>] > 0

\* C17: the DARK records of a key are submitted at most once, and once they
\* are the result file of the key exists, plain or compressed
C17_SubmittedAtMostOnce ==
  \A e \in Endpoints : \A d \in Dates :
    /\ submitted[<<e, d>>] <= 1
    /\ submitted[<<e, d>>] > 0 => result_exists(fs, results_path(e, d))

\* C17 witness: after a submission whose compression failed half way, a later
\* attempt for the key has taken the skip path
C17_Witness ==
  \E w \in Workers :
    /\ Skipped(w)
    /\ submitted[<<wk[w].rse, wk[w].date>>] = 1
    /\ fs[results_path(wk[w].rse, wk[w].date)].exists
    /\ fs[bz2_destination(results_path(wk[w].rse, wk[w].date))].exists

\* ------------------------------------------------- the pool and the signal
\* the pool with the stop signal: two workers, the feed of one endpoint whose
\* diff yields no record, the feeder, terminate.set() at any moment
InitStop ==
  /\ Quiet
  /\ wk = [w \in Workers |-> W0]
  /\ fs = [p \in Paths |-> NoFile]
  /\ usage = [e \in Endpoints |-> 100]
  /\ diffs = [e \in Endpoints |-> <<>>]
  /\ cfg \in {[Cfg0 EXCEPT !.keep_dumps = k, !.attempts = n] :
               k \in BOOLEAN, n \in 0..MaxAttempts}
  /\ arg = <<>>
  /\ ret = <<>>

NextStop ==
  \/ \E e \in Audited : Feed(e)
  \/ Feeder
  \/ SetTerminate
  \/ \E w \in Workers : Worker(w)

\* each worker is a process of its own and the feeder runs: none of them
\* waits forever with a step to take
FairPool == /\ \A w \in Workers : WF_vars(Worker(w))
            /\ WF_vars(Feeder)

SpecStop == InitStop /\ [][NextStop]_vars /\ FairPool

Left == {"exited", "crashed"}

\* C11: once terminate is set, a worker that is processing an endpoint goes
\* on through its iteration (check, log, cleanup, retry decision) and is back
\* at the loop condition only after the retry decision; and every worker
\* eventually leaves its loop
C11_CooperativeCancellation ==
  /\ [][\A w \in Workers :
          (terminate /\ wk[w].pc \in Busy)
            => /\ wk'[w].pc \in Busy \cup {"loop"}
               /\ wk'[w].pc = "loop" => wk[w].pc = "retry"]_vars
  /\ terminate ~> (\A w \in Workers : wk[w].pc \in Left)

\* what holds of C11 on the code: the signal stops no step of an iteration,
\* which ends by the retry decision or by the uncaught error of the cleanup,
\* and every worker leaves its loop
C11_IterationEndsOrWorkerDies ==
  /\ [][\A w \in Workers :
          (terminate /\ wk[w].pc \in Busy)
            => /\ wk'[w].pc \in Busy \cup {"loop", "crashed"}
               /\ wk'[w].pc = "loop" => wk[w].pc = "retry"
               /\ wk'[w].pc = "crashed" => wk[w].pc = "cleanup"]_vars
  /\ terminate ~> (\A w \in Workers : wk[w].pc \in Left)

\* C18: after terminate is set a worker receives at most one more task; a
\* worker that tests the loop condition with the signal set leaves the loop
\* and never receives again; a failed task with budget left handled after the
\* signal is still pushed onto the retry channel
C18_AtMostOneMoreTask ==
  /\ [](\A w \in Workers : wk[w].late <= 1)
  /\ [][\A w \in Workers :
          /\ (terminate /\ wk[w].pc = "loop") => wk'[w].pc \in {"loop", "exited"}
          /\ wk[w].pc = "exited" => wk'[w].pc = "exited"
          /\ (terminate /\ wk[w].pc = "cleanup" /\ ~wk[w].success
                /\ wk[w].attemps > 0)
               => wk'[w].pc \in {"cleanup", "retry"}
          /\ (terminate /\ wk[w].pc = "retry" /\ wk'[w].pc # "retry"
                /\ ~wk[w].success /\ wk[w].attemps > 0)
               => retry' = Append(retry, <<wk[w].rse, wk[w].attemps - 1>>)
     ]_vars

\* what holds of C18 on the code: the same, but for the worker that dies in
\* its cleanup
C18_HoldsUnlessCleanupRaises ==
  /\ [](\A w \in Workers : wk[w].late <= 1)
  /\ [][\A w \in Workers :
          /\ (terminate /\ wk[w].pc = "loop") => wk'[w].pc \in {"loop", "exited"}
          /\ wk[w].pc = "exited" => wk'[w].pc = "exited"
          /\ (terminate /\ wk[w].pc = "retry" /\ wk'[w].pc # "retry"
                /\ ~wk[w].success /\ wk[w].attemps > 0)
               => retry' = Append(retry, <<wk[w].rse, wk[w].attemps - 1>>)
     ]_vars

\* a task received after the signal has failed with budget left and has been
\* pushed onto the retry channel, its worker gone from the loop
C18_LateTaskPushed ==
  \E w \in Workers :
    /\ wk[w].late = 1
    /\ wk[w].pc = "exited"
    /\ retry # <<>>


\* ------------------------------------------------ the pool left to itself
\* the pool with the signal never set: two workers, the feed of one endpoint,
\* the feeder
NextRetries ==
  \/ \E e \in Audited : Feed(e)
  \/ Feeder
  \/ \E w \in Workers : Worker(w)

SpecRetries == InitStop /\ [][NextRetries]_vars /\ FairPool

\* C15: every task on the primary channel eventually has a terminal outcome,
\* a check that succeeds or a failed check with no attempt left
C15_EveryTaskEnds ==
  \A e \in Endpoints :
    InChannel(queue, e) ~> (hist[e].succ \/ hist[e].spent)

\* what holds of C15 on the code: the task ends, or a worker has died in its
\* cleanup
C15_TaskEndsOrWorkerDies ==
  \A e \in Endpoints :
    InChannel(queue, e)
      ~> (hist[e].succ \/ hist[e].spent
            \/ \E w \in Workers : wk[w].pc = "crashed")

\* ------------------------------------------------------- activity_logger
\* the pipes in the order activity_logger is given them
LogPipeOrder == <<"w1", "w2">>

NEmitted == Len(emitted["w1"]) + Len(emitted["w2"])

\* a worker's logger call in check() (lines 204, 216, 219, 224): the handler
\* sends the formatted record down the worker's pipe; the record carries its
\* worker and its rank among all the records sent
Emit(w) ==
  /\ Len(emitted[w]) < MaxRecords
  /\ LET rec == <<w, NEmitted + 1>>
     IN /\ logpipes' = [logpipes EXCEPT ![w] = Append(@, rec)]
        /\ emitted' = [emitted EXCEPT ![w] = Append(@, rec)]
  /\ UNCHANGED <<queue, retry, terminate, wk, fs, cache, dumpdate, quarantine,
                 env, hist, done, submitted, logfile, lg, arg, ret>>

\* while not terminate.is_set()
LgLoopTest ==
  /\ lg.pc = "loop"
  /\ lg' = [lg EXCEPT !.pc = IF terminate THEN "exited" ELSE "select"]
  /\ UNCHANGED <<queue, retry, terminate, wk, fs, cache, dumpdate, quarantine,
                 env, hist, done, submitted, logpipes, logfile, emitted, arg,
                 ret>>

\* select.select(logpipes, tuple(), tuple(), 30): the pipes with a record to
\* read, in the order given; none after the 30 seconds
select(pipes) == SelectSeq(LogPipeOrder, LAMBDA w : pipes[w] # <<>>)

\* ready, _, _ = select.select(...); if ready
LgSelect ==
  /\ lg.pc = "select"
  /\ lg' = [pc |-> IF select(logpipes) = <<>> THEN "loop" ELSE "recv",
            ready |-> select(logpipes)]
  /\ UNCHANGED <<queue, retry, terminate, wk, fs, cache, dumpdate, quarantine,
                 env, hist, done, submitted, logpipes, logfile, emitted, arg,
                 ret>>

\* a recv that takes the newest record of the pipe
recv_last(pipe) == pipe[Len(pipe)]

\* logpipe.recv(): the oldest record of the pipe
recv(pipe) == Head(pipe)

\* what the handler of 'auditor-logger-raw' appends for a record: the message
\* as it is (Formatter(fmt=None)) and the end of the line
log_line(rec) == rec \o <<"\n">>

\* for logpipe in ready: logger.critical(logpipe.recv()), one pipe
LgRecv ==
  /\ lg.pc = "recv"
  /\ LET w == Head(lg.ready)
         rec == recv(logpipes[w])
     IN /\ logfile' = Append(logfile, log_line(rec))
        /\ logpipes' = [logpipes EXCEPT
                          ![w] = SelectSeq(@, LAMBDA x : x # rec)]
        /\ lg' = [pc |-> IF Tail(lg.ready) = <<>> THEN "loop" ELSE "recv",
                  ready |-> Tail(lg.ready)]
  /\ UNCHANGED <<queue, retry, terminate, wk, fs, cache, dumpdate, quarantine,
                 env, hist, done, submitted, emitted, arg, ret>>

Aggregator == LgLoopTest \/ LgSelect \/ LgRecv

InitLog ==
  /\ Quiet
  /\ wk = [w \in Workers |-> W0]
  /\ fs = [p \in Paths |-> NoFile]
  /\ usage = [e \in Endpoints |-> 100]
  /\ diffs = [e \in Endpoints |-> <<>>]
  /\ cfg = Cfg0
  /\ arg = <<>>
  /\ ret = <<>>

NextLog ==
  \/ \E w \in Workers : Emit(w)
  \/ SetTerminate
  \/ Aggregator

\* the aggregator is a process of its own
SpecLog == InitLog /\ [][NextLog]_vars /\ WF_vars(Aggregator)

\* the lines of the log file that come from worker w, in the order of the file
FromWorker(w) == SelectSeq(logfile, LAMBDA line : line[1] = w)

Lines(recs) == [i \in 1..Len(recs) |-> log_line(recs[i])]

\* C12: the lines of the log file that come from one worker, followed by the
\* records still in its pipe, are the records the worker sent, in the order
\* it sent them, each once and as it was sent
C12_WorkerOrderKept ==
  \A w \in Workers : FromWorker(w) \o Lines(logpipes[w]) = Lines(emitted[w])

\* C12 witness: two records of one worker are in the file in the order sent,
\* and a record of the other worker that was sent before them comes after one
\* of them in the file
C12_Witness ==
  /\ \E w \in Workers : Len(FromWorker(w)) = 2
  /\ \E i, j \in 1..Len(logfile) :
       /\ i < j
       /\ logfile[i][1] # logfile[j][1]
       /\ logfile[i][2] > logfile[j][2]

\* C19: the aggregator has not left its loop while a pipe holds a record
C19_NoRecordLeftBehind ==
  lg.pc = "exited" => \A w \in Workers : logpipes[w] = <<>>

\* what holds of C19 on the code: a record in a pipe is appended to the file
\* unless the signal is set before it is read
C19_AppendedUnlessStopped ==
  \A w \in Workers :
    (logpipes[w] # <<>>) ~> (terminate \/ Len(FromWorker(w)) > 0)

\* ------------------------------------------- guess_replica_info alone
\* the segments a path is made of: a segment holds no "/" and may be empty
Segments == {<<>>, <<"group">>, <<"user">>, <<"data">>, <<"a.root">>}
SegmentLists == UNION {[1..n -> Segments] : n \in 1..MaxSegs}

\* a caller that is not a worker of the pool: no worker runs
NoPool ==
  /\ Quiet
  /\ wk = [w \in Workers |-> [W0 EXCEPT !.pc = "exited"]]
  /\ fs = [p \in Paths |-> NoFile]
  /\ usage = [e \in Endpoints |-> 100]
  /\ diffs = [e \in Endpoints |-> <<>>]
  /\ cfg = Cfg0

\* the path is the segments joined by "/"
InitGuess ==
  /\ NoPool
  /\ arg \in SegmentLists
  /\ ret = <<>>

\* scope, name = guess_replica_info(path)
GuessReplicaInfo ==
  /\ ret = <<>>
  /\ ret' = guess_replica_info(Join("/", arg))
  /\ UNCHANGED <<queue, retry, terminate, wk, fs, cache, dumpdate, quarantine,
                 env, submitted, logs, hist, done, arg>>

SpecGuess == InitGuess /\ [][GuessReplicaInfo]_vars

\* C9: by the number of "/"-separated segments of the path: one segment gives
\* (None, path); at least three with the first "group" or "user" give (first
\* "." second, last); everything else, two-segment paths starting with
\* "group" or "user" included, gives (first, last)
C9_GuessReplicaInfo ==
  ret # <<>> =>
    LET n == Len(arg) IN
    IF n = 1 THEN ret = <<None, arg[1]>>
    ELSE IF n >= 3 /\ arg[1] \in {<<"group">>, <<"user">>}
         THEN ret = <<Str(arg[1] \o <<".">> \o arg[2]), arg[n]>>
    ELSE ret = <<Str(arg[1]), arg[n]>>

\* C9 witness: a two-segment path starting with "user" got the scope "user"
C9_Witness ==
  /\ Len(arg) = 2
  /\ arg[1] = <<"user">>
  /\ ret # <<>>
  /\ ret[1] = Str(<<"user">>)

\* ----------------------------------------------- process_output alone
\* the records a result file is written from: any label, paths with a comma,
\* relative and absolute
Labels == {<<"DARK">>, <<"LOST">>, <<"JUNK">>}
RecordPaths == {<<"/", "data", "/", "a.root">>,
                <<"user", "/", "jdoe", "/", "x", ",", "y">>}
Records == [label : Labels, path : RecordPaths]
RecordLists == UNION {[1..n -> Records] : n \in 0..MaxLines}
\* the file counts around the threshold, and the 1000 files of the spec's
\* example with 200 and 201 DARK records
SmallCounts == {0, 5, 9, 10}
Bulk(n) == [i \in 1..n |-> DarkA]

RECURSIVE Render(_)
\* the result file consistency() writes from a list of records
Render(records) ==
  IF records = <<>> THEN <<>>
  ELSE IF Len(records) = 1 THEN result_line(records[1])
  ELSE LET half == Len(records) \div 2
       IN Render(SubSeq(records, 1, half))
            \o Render(SubSeq(records, half + 1, Len(records)))

NDark(records) ==
  Cardinality({i \in 1..Len(records) : records[i].label = <<"DARK">>})
AllLabelled(records) ==
  \A i \in 1..Len(records) : records[i].label \in {<<"DARK">>, <<"LOST">>}

\* process_output(output, sanity_check, compress) called by w1 on a result
\* file of an endpoint
OutputCall(e, records, files, sanity, compress) ==
  /\ Quiet
  /\ wk = [w \in Workers |->
             IF w \in Single
             THEN [W0 EXCEPT !.pc = "proc", !.rse = e, !.date = Date1,
                             !.output = Str(results_path(e, Date1))]
             ELSE [W0 EXCEPT !.pc = "exited"]]
  /\ fs = [p \in Paths |-> IF p = results_path(e, Date1)
                           THEN File(Render(records)) ELSE NoFile]
  /\ usage = [x \in Endpoints |-> files]
  /\ diffs = [x \in Endpoints |-> <<>>]
  /\ cfg = [Cfg0 EXCEPT !.sanity_check = sanity, !.compress = compress]
  /\ arg = [rse |-> e, records |-> records, files |-> files]
  /\ ret = <<>>

InitOutput ==
  \/ \E e \in Endpoints, files \in SmallCounts, records \in RecordLists,
        sanity \in BOOLEAN, compress \in BOOLEAN :
       OutputCall(e, records, files, sanity, compress)
  \/ \E n \in {200, 201}, sanity \in BOOLEAN :
       OutputCall(RSE1, Bulk(n), 1000, sanity, FALSE)

NextOutput ==
  \E w \in Single : Proc(w) \/ Bz2Open(w) \/ Bz2Loop(w) \/ Bz2Remove(w)

SpecOutput == InitOutput /\ [][NextOutput]_vars

\* C5: with sanity checking on and a result file of well-labelled records,
\* more DARK records than threshold * file_count make the call fail, by the
\* guard error once the file count is read, with nothing submitted; at most
\* threshold * file_count DARK records never raise the guard error
C5_SanityGuard ==
  \A w \in Single :
    (wk[w].pc # "proc" /\ cfg.sanity_check /\ AllLabelled(arg.records)) =>
      IF NDark(arg.records) * ThresholdDen > ThresholdNum * arg.files
      THEN /\ wk[w].pc = "cleanup"
           /\ ~wk[w].success
           /\ wk[w].files # -1 => wk[w].err = "AssertionError"
           /\ quarantine = <<>>
      ELSE wk[w].err # "AssertionError"

\* C5 witness: 201 DARK records against 1000 files: the guard error, nothing
\* submitted
C5_Witness ==
  \E w \in Single :
    /\ arg.files = 1000
    /\ NDark(arg.records) = 201
    /\ cfg.sanity_check
    /\ wk[w].pc = "cleanup"
    /\ wk[w].err = "AssertionError"
    /\ quarantine = <<>>

\* the other half of the example: exactly 200 DARK records against 1000 files
\* pass the guard and are submitted
C5_Witness200 ==
  \E w \in Single :
    /\ arg.files = 1000
    /\ NDark(arg.records) = 200
    /\ cfg.sanity_check
    /\ wk[w].success
    /\ Len(quarantine) = 1
    /\ Len(quarantine[1].replicas) = 200

\* C6: a record with a label other than DARK or LOST anywhere in the result
\* file makes process_output fail with the parse error, with nothing
\* submitted, the result file as it was and no compressed file
C6_BadLabelIsFatal ==
  \A w \in Single :
    (wk[w].pc # "proc" /\ ~AllLabelled(arg.records)) =>
      /\ wk[w].pc = "cleanup"
      /\ ~wk[w].success
      /\ wk[w].err = "ValueError"
      /\ quarantine = <<>>
      /\ fs[results_path(arg.rse, Date1)] = File(Render(arg.records))
      /\ ~fs[bz2_destination(results_path(arg.rse, Date1))].exists

\* C6 witness: the bad label comes after a valid DARK line
C6_Witness ==
  \E w \in Single :
    /\ Len(arg.records) >= 2
    /\ arg.records[1].label = <<"DARK">>
    /\ arg.records[Len(arg.records)].label = <<"JUNK">>
    /\ wk[w].pc = "cleanup"
    /\ wk[w].err = "ValueError"

\* -------------------------------------------- bz2_compress_file alone
Bytes == {"a", "b"}
Contents == UNION {[1..n -> Bytes] : n \in 0..MaxBytes}

\* bz2_compress_file(source, chunk_size) called by w1 on a file of the bytes
\* arg
InitBz2 ==
  /\ Quiet
  /\ wk = [w \in Workers |->
             IF w \in Single
             THEN [W0 EXCEPT !.pc = "bz2_open", !.rse = RSE1, !.date = Date1,
                             !.output = Str(results_path(RSE1, Date1))]
             ELSE [W0 EXCEPT !.pc = "exited"]]
  /\ arg \in Contents
  /\ fs = [p \in Paths |-> IF p = results_path(RSE1, Date1)
                           THEN File(arg) ELSE NoFile]
  /\ usage = [e \in Endpoints |-> 100]
  /\ diffs = [e \in Endpoints |-> <<>>]
  /\ cfg \in {[Cfg0 EXCEPT !.chunk_size = n] : n \in 1..MaxChunk}
  /\ ret = <<>>

NextBz2 == \E w \in Single : Bz2Open(w) \/ Bz2Loop(w) \/ Bz2Remove(w)

SpecBz2 == InitBz2 /\ [][NextBz2]_vars

Bz2Source == results_path(RSE1, Date1)
\* a complete compressed copy: a closed stream that decompresses to the
\* original bytes
CompleteCopy ==
  /\ fs[bz2_destination(Bz2Source)].exists
  /\ bz2_valid(fs[bz2_destination(Bz2Source)].data)
  /\ bz2_decompress(fs[bz2_destination(Bz2Source)].data) = arg

\* C10: at every point of bz2_compress_file, after a failure at any chunk
\* too, the original is still there unchanged or a complete compressed copy
\* of it is; after a successful call the original is gone and the complete
\* copy is there
C10_OriginalOrCompleteCopy ==
  /\ fs[Bz2Source] = File(arg) \/ CompleteCopy
  /\ \A w \in Single :
       (wk[w].pc = "cleanup" /\ wk[w].success)
         => (~fs[Bz2Source].exists /\ CompleteCopy)

\* C10 witness: a file of more than one chunk, the last one short, has been
\* compressed and removed
C10_Witness ==
  \E w \in Single :
    /\ wk[w].pc = "cleanup"
    /\ wk[w].success
    /\ Len(arg) > cfg.chunk_size
    /\ Len(arg) % cfg.chunk_size # 0
    /\ ~fs[Bz2Source].exists

====
